---- MODULE Spec2Model ----
(***************************************************************************)
(* Model of the token-budget manager and the document chunker of the chat  *)
(* backend (src/utils.py), and of the message handler and the routes of    *)
(* src/app.py that read or write a stored conversation.                    *)
(*                                                                         *)
(* Text is a sequence of one-character strings.  The tokenizer is modelled *)
(* as producing one token per character, so count_tokens is the length of  *)
(* the text.  The fixed texts the code builds ("Summary: " and the error   *)
(* placeholder) are abbreviated to short texts, see SummaryPrefix and      *)
(* ErrorSummary.                                                           *)
(*                                                                         *)
(* Python lists are objects: the model keeps them in a small heap so that  *)
(* "a new list" and "the caller's list" are different things.              *)
(***************************************************************************)
EXTENDS Integers, Sequences, FiniteSets, TLC

VARIABLES
    \* ---- manage_token_limits ----
    heap,                   \* list objects: ref -> sequence of messages
    conversation_history,   \* ref of the argument of the running call
    new_message,            \* <<>> is None, <<text>> is a string
    temp_history,           \* ref of the local list temp_history
    total_tokens,
    messages_to_summarize,
    pc,
    depth,                  \* number of recursive calls made so far
    result,                 \* <<>> until the call returns, then <<[transcript, total]>>
    client_log,             \* summary messages summarize_messages returned in this call
    orig_history,           \* the transcript the outer call was given
    orig_new_message,       \* the new_message the outer call was given
    call,                   \* 1 during the first outer call, 2 during a repeated one
    first_result,           \* result and client_log of the first outer call
    first_log,
    \* ---- handle_file_chunks, analyze_chunk_with_llama ----
    file_content,
    lines,
    line_index,             \* position of the for loop of line 143 in lines
    content_chunks,
    raw_chunks,             \* current_chunk as it was when each chunk was appended
    current_chunk,
    current_token_count,
    fpc,
    chunk_index,            \* position of the for loop of line 159 in content_chunks
    full_analysis_result,
    payload_messages,
    attempt,
    last_call,              \* <<>>, or how the last analyze_chunk_with_llama call ended
    \* ---- handle_message and the routes ----
    conversations_collection,   \* conversation id -> <<>> (no document), or
                                \* <<conversation_history>> of the stored document
    stored_before,          \* conversations_collection before any message was handled
    session_conversation_id,    \* session['conversation_id'], NoConversation if unset
    hpc,                    \* handler -> its position in handle_message
    user_message,           \* handler -> data.get('message')
    conversation_id,        \* handler -> the conversation_id it read from the session
    local_history,          \* handler -> its local list conversation_history
    emitted,                \* handler -> the events it emitted, in order
    client_calls,           \* handler -> the completion calls made while it ran, in order
    route_log,              \* the route calls that ended, in order, with their status
    few_shot                \* <<>>, or the add_few_shot_example call between its
                            \* find_one and its update_one

budgetVars == <<heap, conversation_history, new_message, temp_history, total_tokens,
                messages_to_summarize, pc, depth, result, client_log,
                orig_history, orig_new_message, call, first_result, first_log>>

fileVars == <<file_content, lines, line_index, content_chunks, raw_chunks, current_chunk,
              current_token_count, fpc, chunk_index, full_analysis_result,
              payload_messages, attempt, last_call>>

chatVars == <<conversations_collection, stored_before, session_conversation_id, hpc,
              user_message, conversation_id, local_history, emitted, client_calls,
              route_log, few_shot>>

vars == <<budgetVars, fileVars, chatVars>>

\* ------------------------------------------------------------------ bounds
MaxLines == 3
MaxHistory == 3
MaxContentLen == 5
\* recursive calls of manage_token_limits that are followed
MaxDepth == 2
MaxConversations == 2
\* route calls (other than send_message) in one behaviour
MaxRouteCalls == 1

\* ----------------------------------------------------------- configuration
MAX_TOKENS == 5
REPLY_TOKENS == 1
CHUNK_SIZE_TOKENS == 10
\* analyze_chunk_with_llama(chunk, retries=3)
retries == 3

Ceiling == MAX_TOKENS - REPLY_TOKENS

\* --------------------------------------------------------------- text
Rep(ch, n) == [i \in 1..n |-> ch]

count_tokens(text) == Len(text)

IsSpace(ch) == ch \in {" ", "\n"}

RECURSIVE LStrip(_)
LStrip(s) == IF s # <<>> /\ IsSpace(Head(s)) THEN LStrip(Tail(s)) ELSE s

RECURSIVE RStrip(_)
RStrip(s) ==
    IF s # <<>> /\ IsSpace(s[Len(s)]) THEN RStrip(SubSeq(s, 1, Len(s) - 1)) ELSE s

Strip(s) == RStrip(LStrip(s))

\* str.splitlines: the text between line breaks; a text that ends in a line
\* break has no empty last line
RECURSIVE SplitFrom(_, _, _, _)
SplitFrom(s, i, cur, acc) ==
    IF i > Len(s) THEN (IF cur = <<>> THEN acc ELSE Append(acc, cur))
    ELSE IF s[i] = "\n" THEN SplitFrom(s, i + 1, <<>>, Append(acc, cur))
    ELSE SplitFrom(s, i + 1, Append(cur, s[i]), acc)

SplitLines(s) == SplitFrom(s, 1, <<>>, <<>>)

\* --------------------------------------------------------------- messages
UserMessage(text) == [role |-> "user", content |-> text]

RECURSIVE SumTokens(_)
SumTokens(history) ==
    IF history = <<>> THEN 0
    ELSE count_tokens(Head(history).content) + SumTokens(Tail(history))

Truthy(msg) == msg # <<>> /\ msg[1] # <<>>

\* "Summary: " and "Summary not available due to an error.", abbreviated
SummaryPrefix == <<"S">>
ErrorSummary == <<"S", "E">>

\* texts the completion API may put in choices[0].message.content
SummaryReplies == {<<>>, <<" ", "s", "\n">>}

SummaryOk(reply) == [role |-> "system", content |-> SummaryPrefix \o Strip(reply)]
SummaryFailed == [role |-> "system", content |-> ErrorSummary]

\* --------------------------------------------------------------- lists
Refs == 0..2
CallerList == 0

Fresh(used) == CHOOSE r \in Refs \ {CallerList} : r # used

ListCopyAliased(src, fresh) == src
ListCopy(src, fresh) == fresh

RemoveAt(s, i) == SubSeq(s, 1, i - 1) \o SubSeq(s, i + 1, Len(s))

PopIndexLast(list) == Len(list)
PopIndex(list) == 1

OverBudget(total) == total >= MAX_TOKENS - REPLY_TOKENS

\* --------------------------------------------------------------- inputs
Letters == <<"a", "b", "c", "d", "e", "f">>
RoleAt(i) == IF i % 2 = 1 THEN "user" ELSE "assistant"

Transcripts ==
    UNION {{[i \in 1..k |-> [role |-> RoleAt(i), content |-> Rep(Letters[i], lens[i])]] :
              lens \in [1..k -> 1..MaxContentLen]} : k \in 0..MaxHistory}

NewMessages == {<<>>} \cup {<<Rep("n", n)>> : n \in 0..MaxContentLen}

\* no upload is being handled
FileIdle ==
    /\ file_content = <<>>
    /\ lines = <<>>
    /\ line_index = 1
    /\ content_chunks = <<>>
    /\ raw_chunks = <<>>
    /\ current_chunk = <<>>
    /\ current_token_count = 0
    /\ fpc = "idle"
    /\ chunk_index = 1
    /\ full_analysis_result = <<>>
    /\ payload_messages = <<>>
    /\ attempt = 0
    /\ last_call = <<>>

Handlers == {1, 2}

ConversationIds == 1..MaxConversations
NoConversation == 0

\* no message is being handled, no route is called
ChatIdle ==
    /\ conversations_collection = [c \in ConversationIds |-> <<>>]
    /\ stored_before = conversations_collection
    /\ session_conversation_id = NoConversation
    /\ hpc = [h \in Handlers |-> "idle"]
    /\ user_message = [h \in Handlers |-> <<>>]
    /\ conversation_id = [h \in Handlers |-> NoConversation]
    /\ local_history = [h \in Handlers |-> <<>>]
    /\ emitted = [h \in Handlers |-> <<>>]
    /\ client_calls = [h \in Handlers |-> <<>>]
    /\ route_log = <<>>
    /\ few_shot = <<>>

Init ==
    /\ FileIdle
    /\ ChatIdle
    /\ \E h \in Transcripts :
          /\ heap = [r \in Refs |-> IF r = CallerList THEN h ELSE <<>>]
          /\ orig_history = h
    /\ new_message \in NewMessages
    /\ orig_new_message = new_message
    /\ conversation_history = CallerList
    /\ temp_history = CallerList
    /\ total_tokens = 0
    /\ messages_to_summarize = <<>>
    /\ pc = "start"
    /\ depth = 0
    /\ result = <<>>
    /\ client_log = <<>>
    /\ call = 1
    /\ first_result = <<>>
    /\ first_log = <<>>

\* ------------------------------------------------- manage_token_limits
\* lines 92-99: build temp_history, total it, test it against the ceiling
Enter ==
    /\ pc = "start"
    /\ LET fresh == Fresh(conversation_history)
           t == IF Truthy(new_message) THEN fresh
                ELSE ListCopy(conversation_history, fresh)
           contents == IF Truthy(new_message)
                       THEN Append(heap[conversation_history], UserMessage(new_message[1]))
                       ELSE heap[conversation_history]
       IN /\ heap' = [heap EXCEPT ![t] = contents]
          /\ temp_history' = t
          /\ total_tokens' = SumTokens(contents)
          /\ pc' = IF OverBudget(SumTokens(contents)) THEN "evict" ELSE "under"
    /\ messages_to_summarize' = <<>>
    /\ UNCHANGED <<conversation_history, new_message, depth, result, client_log,
                   orig_history, orig_new_message, call, first_result, first_log, fileVars, chatVars>>

\* lines 101-103: one round of the eviction loop
Evict ==
    /\ pc = "evict"
    /\ OverBudget(total_tokens) /\ Len(heap[temp_history]) > 1
    /\ LET list == heap[temp_history]
           i == PopIndex(list)
       IN /\ messages_to_summarize' = Append(messages_to_summarize, list[i])
          /\ heap' = [heap EXCEPT ![temp_history] = RemoveAt(list, i)]
          /\ total_tokens' = SumTokens(RemoveAt(list, i))
    /\ UNCHANGED <<conversation_history, new_message, temp_history, pc, depth, result,
                   client_log, orig_history, orig_new_message, call, first_result,
                   first_log, fileVars, chatVars>>

\* line 101 false, line 105
EvictDone ==
    /\ pc = "evict"
    /\ ~(OverBudget(total_tokens) /\ Len(heap[temp_history]) > 1)
    /\ pc' = IF messages_to_summarize # <<>> THEN "summarize" ELSE "append"
    /\ UNCHANGED <<heap, conversation_history, new_message, temp_history, total_tokens,
                   messages_to_summarize, depth, result, client_log, orig_history,
                   orig_new_message, call, first_result, first_log, fileVars, chatVars>>

\* lines 107-110: the state after inserting the summary message
InsertSummary(summary_message) ==
    LET list == <<summary_message>> \o heap[temp_history]
    IN /\ heap' = [heap EXCEPT ![temp_history] = list]
       /\ total_tokens' = SumTokens(list)
       /\ pc' = IF OverBudget(SumTokens(list)) THEN "recurse" ELSE "append"
       /\ client_log' = Append(client_log, summary_message)

\* line 106, summarize_messages lines 80-85: the request succeeded
SummarizeOk ==
    /\ pc = "summarize"
    /\ \E reply \in SummaryReplies : InsertSummary(SummaryOk(reply))
    /\ UNCHANGED <<conversation_history, new_message, temp_history,
                   messages_to_summarize, depth, result, orig_history,
                   orig_new_message, call, first_result, first_log, fileVars, chatVars>>

\* line 106, summarize_messages lines 86-88: the request raised
SummarizeFail ==
    /\ pc = "summarize"
    /\ InsertSummary(SummaryFailed)
    /\ UNCHANGED <<conversation_history, new_message, temp_history,
                   messages_to_summarize, depth, result, orig_history,
                   orig_new_message, call, first_result, first_log, fileVars, chatVars>>

\* line 111: return manage_token_limits(temp_history); the call is followed
\* through MaxDepth recursive calls
Recurse ==
    /\ pc = "recurse"
    /\ depth < MaxDepth
    /\ conversation_history' = temp_history
    /\ new_message' = <<>>
    /\ depth' = depth + 1
    /\ pc' = "start"
    /\ UNCHANGED <<heap, temp_history, total_tokens, messages_to_summarize, result,
                   client_log, orig_history, orig_new_message, call, first_result,
                   first_log, fileVars, chatVars>>

\* lines 113-114
UnderBudget ==
    /\ pc = "under"
    /\ LET t == ListCopy(conversation_history, Fresh(conversation_history))
       IN /\ heap' = [heap EXCEPT ![t] = heap[conversation_history]]
          /\ temp_history' = t
    /\ pc' = "append"
    /\ UNCHANGED <<conversation_history, new_message, total_tokens,
                   messages_to_summarize, depth, result, client_log, orig_history,
                   orig_new_message, call, first_result, first_log, fileVars, chatVars>>

\* lines 116-120
Return ==
    /\ pc = "append"
    /\ LET list == IF Truthy(new_message)
                   THEN Append(heap[temp_history], UserMessage(new_message[1]))
                   ELSE heap[temp_history]
           total == IF Truthy(new_message)
                    THEN total_tokens + count_tokens(new_message[1])
                    ELSE total_tokens
       IN /\ heap' = [heap EXCEPT ![temp_history] = list]
          /\ total_tokens' = total
          /\ result' = <<[transcript |-> list, total |-> total]>>
    /\ pc' = "done"
    /\ UNCHANGED <<conversation_history, new_message, temp_history,
                   messages_to_summarize, depth, client_log, orig_history,
                   orig_new_message, call, first_result, first_log, fileVars, chatVars>>

manage_token_limits ==
    \/ Enter
    \/ Evict
    \/ EvictDone
    \/ SummarizeOk
    \/ SummarizeFail
    \/ Recurse
    \/ UnderBudget
    \/ Return

Next == manage_token_limits

Spec == Init /\ [][Next]_vars

\* ------------------------------------- two calls in a row on one transcript
\* the caller calls manage_token_limits(conversation_history, None) a second time
\* on the list object it passed the first time
CallAgain ==
    /\ pc = "done"
    /\ call = 1
    /\ call' = 2
    /\ first_result' = result
    /\ first_log' = client_log
    /\ conversation_history' = CallerList
    /\ new_message' = <<>>
    /\ pc' = "start"
    /\ depth' = 0
    /\ result' = <<>>
    /\ client_log' = <<>>
    /\ UNCHANGED <<heap, temp_history, total_tokens, messages_to_summarize,
                   orig_history, orig_new_message, fileVars, chatVars>>

InitTwice == Init /\ new_message = <<>>

NextTwice == manage_token_limits \/ CallAgain

SpecTwice == InitTwice /\ [][NextTwice]_vars

\* --------------------------------------------------------- uploaded files
\* the lines of the uploaded documents: line i is written in letter i; a blank
\* line, a whitespace-only line, lines of 4 tokens (plain, with a leading and
\* with a trailing space), a line of 6 and one longer than a chunk
LineShapes(ch) ==
    {<<>>, <<" ">>, Rep(ch, 4), <<" ">> \o Rep(ch, 3), Rep(ch, 3) \o <<" ">>,
     Rep(ch, 6), Rep(ch, CHUNK_SIZE_TOKENS + 1)}

RECURSIVE JoinLines(_)
JoinLines(ls) ==
    IF ls = <<>> THEN <<>>
    ELSE IF Len(ls) = 1 THEN ls[1]
    ELSE ls[1] \o <<"\n">> \o JoinLines(Tail(ls))

Documents ==
    UNION {{JoinLines(ls) \o end :
              ls \in {l \in [1..k -> UNION {LineShapes(Letters[i]) : i \in 1..k}] :
                        \A i \in 1..k : l[i] \in LineShapes(Letters[i])},
              end \in {<<>>, <<"\n">>}} : k \in 0..MaxLines}

\* no call of manage_token_limits is running
BudgetIdle ==
    /\ heap = [r \in Refs |-> <<>>]
    /\ orig_history = <<>>
    /\ new_message = <<>>
    /\ orig_new_message = <<>>
    /\ conversation_history = CallerList
    /\ temp_history = CallerList
    /\ total_tokens = 0
    /\ messages_to_summarize = <<>>
    /\ pc = "idle"
    /\ depth = 0
    /\ result = <<>>
    /\ client_log = <<>>
    /\ call = 1
    /\ first_result = <<>>
    /\ first_log = <<>>

InitFile ==
    /\ BudgetIdle
    /\ ChatIdle
    /\ file_content \in Documents
    /\ lines = <<>>
    /\ line_index = 1
    /\ content_chunks = <<>>
    /\ raw_chunks = <<>>
    /\ current_chunk = <<>>
    /\ current_token_count = 0
    /\ fpc = "start"
    /\ chunk_index = 1
    /\ full_analysis_result = <<>>
    /\ payload_messages = <<>>
    /\ attempt = 0
    /\ last_call = <<>>

\* line 146
ExceedsChunkOrFills(count, tokens_in_line) == count + tokens_in_line >= CHUNK_SIZE_TOKENS
ExceedsChunk(count, tokens_in_line) == count + tokens_in_line > CHUNK_SIZE_TOKENS

\* lines 136-140
ReadLines ==
    /\ fpc = "start"
    /\ lines' = SplitLines(file_content)
    /\ line_index' = 1
    /\ content_chunks' = <<>>
    /\ raw_chunks' = <<>>
    /\ current_chunk' = <<>>
    /\ current_token_count' = 0
    /\ fpc' = "lines"
    /\ UNCHANGED <<file_content, chunk_index, full_analysis_result, payload_messages,
                   attempt, last_call, budgetVars, chatVars>>

\* lines 143-152, the line fits: it joins the current chunk
LineJoinsChunk ==
    /\ fpc = "lines"
    /\ line_index <= Len(lines)
    /\ LET line == lines[line_index]
           tokens_in_line == count_tokens(line)
       IN /\ ~ExceedsChunk(current_token_count, tokens_in_line)
          /\ current_chunk' = current_chunk \o line \o <<"\n">>
          /\ current_token_count' = current_token_count + tokens_in_line
    /\ line_index' = line_index + 1
    /\ UNCHANGED <<file_content, lines, content_chunks, raw_chunks, fpc, chunk_index,
                   full_analysis_result, payload_messages, attempt, last_call,
                   budgetVars, chatVars>>

\* lines 143-152, the line does not fit: the current chunk is closed and the line
\* starts the next one
LineClosesChunk ==
    /\ fpc = "lines"
    /\ line_index <= Len(lines)
    /\ LET line == lines[line_index]
           tokens_in_line == count_tokens(line)
       IN /\ ExceedsChunk(current_token_count, tokens_in_line)
          /\ content_chunks' = Append(content_chunks, Strip(current_chunk))
          /\ raw_chunks' = Append(raw_chunks, current_chunk)
          /\ current_chunk' = line \o <<"\n">>
          /\ current_token_count' = tokens_in_line
    /\ line_index' = line_index + 1
    /\ UNCHANGED <<file_content, lines, fpc, chunk_index, full_analysis_result,
                   payload_messages, attempt, last_call, budgetVars, chatVars>>

\* lines 154-158, the trailing content is not blank
LastChunk ==
    /\ fpc = "lines"
    /\ line_index > Len(lines)
    /\ Strip(current_chunk) # <<>>
    /\ content_chunks' = Append(content_chunks, Strip(current_chunk))
    /\ raw_chunks' = Append(raw_chunks, current_chunk)
    /\ fpc' = "chunks"
    /\ chunk_index' = 1
    /\ full_analysis_result' = <<>>
    /\ UNCHANGED <<file_content, lines, line_index, current_chunk, current_token_count,
                   payload_messages, attempt, last_call, budgetVars, chatVars>>

\* lines 154-158, the trailing content is blank
NoLastChunk ==
    /\ fpc = "lines"
    /\ line_index > Len(lines)
    /\ Strip(current_chunk) = <<>>
    /\ fpc' = "chunks"
    /\ chunk_index' = 1
    /\ full_analysis_result' = <<>>
    /\ UNCHANGED <<file_content, lines, line_index, content_chunks, raw_chunks,
                   current_chunk, current_token_count, payload_messages, attempt,
                   last_call, budgetVars, chatVars>>

\* ------------------------------------------------ analyze_chunk_with_llama
\* texts the completion API may put in choices[0].message.content
AnalysisReplies == {<<"o", "k">>}

\* "Unable to process your request at this time. Please try again later."
FailureText == <<"U">>

\* how a request can fail, and the exception Python raises for it: a timeout and
\* an HTTP error status are RequestExceptions; a JSON body without the key
\* 'choices' raises KeyError, one whose 'choices' list is empty raises IndexError
FailureKinds == {"Timeout", "HTTPError", "MissingKey", "EmptyChoices"}

ExceptionOf(kind) ==
    CASE kind \in {"Timeout", "HTTPError"} -> "RequestException"
      [] kind = "MissingKey" -> "KeyError"
      [] kind = "EmptyChoices" -> "IndexError"

\* line 183: except (requests.exceptions.RequestException, KeyError)
Caught(kind) == ExceptionOf(kind) \in {"RequestException", "KeyError"}

\* line 161, after analyze_chunk_with_llama returned analysis
Labelled(analysis) ==
    Append(full_analysis_result, [chunk |-> chunk_index, analysis |-> analysis])

\* lines 159-160 and 167-176: the next chunk is handed to analyze_chunk_with_llama;
\* the session holds no 'conversation', so the payload is the chunk alone
AnalyzeChunk ==
    /\ fpc = "chunks"
    /\ chunk_index <= Len(content_chunks)
    /\ payload_messages' = <<UserMessage(content_chunks[chunk_index])>>
    /\ attempt' = 0
    /\ last_call' = <<>>
    /\ fpc' = "attempt"
    /\ UNCHANGED <<file_content, lines, line_index, content_chunks, raw_chunks,
                   current_chunk, current_token_count, chunk_index,
                   full_analysis_result, budgetVars, chatVars>>

\* lines 177-182 and 161: the request succeeds
AttemptSucceeds ==
    /\ fpc = "attempt"
    /\ attempt < retries
    /\ \E reply \in AnalysisReplies :
          /\ last_call' = <<[outcome |-> "returned", value |-> reply,
                             requests |-> attempt + 1, failed |-> attempt]>>
          /\ full_analysis_result' = Labelled(reply)
    /\ chunk_index' = chunk_index + 1
    /\ fpc' = "chunks"
    /\ UNCHANGED <<file_content, lines, line_index, content_chunks, raw_chunks,
                   current_chunk, current_token_count, payload_messages, attempt,
                   budgetVars, chatVars>>

\* lines 177-186: the request fails with a caught exception, attempts remain
AttemptFailsRetry ==
    /\ fpc = "attempt"
    /\ attempt < retries
    /\ \E kind \in FailureKinds : Caught(kind)
    /\ attempt + 1 < retries
    /\ attempt' = attempt + 1
    /\ UNCHANGED <<file_content, lines, line_index, content_chunks, raw_chunks,
                   current_chunk, current_token_count, fpc, chunk_index,
                   full_analysis_result, payload_messages, last_call, budgetVars, chatVars>>

\* lines 177-187 and 161: the request fails with a caught exception, no attempt
\* remains
AttemptFailsLast ==
    /\ fpc = "attempt"
    /\ attempt < retries
    /\ \E kind \in FailureKinds : Caught(kind)
    /\ attempt + 1 >= retries
    /\ attempt' = attempt + 1
    /\ last_call' = <<[outcome |-> "returned", value |-> FailureText,
                       requests |-> attempt + 1, failed |-> attempt + 1]>>
    /\ full_analysis_result' = Labelled(FailureText)
    /\ chunk_index' = chunk_index + 1
    /\ fpc' = "chunks"
    /\ UNCHANGED <<file_content, lines, line_index, content_chunks, raw_chunks,
                   current_chunk, current_token_count, payload_messages, budgetVars, chatVars>>

\* lines 177-183: the request fails with an exception line 183 does not catch;
\* it leaves analyze_chunk_with_llama and handle_file_chunks
AttemptRaises ==
    /\ fpc = "attempt"
    /\ attempt < retries
    /\ \E kind \in FailureKinds :
          /\ ~Caught(kind)
          /\ last_call' = <<[outcome |-> "raised", value |-> ExceptionOf(kind),
                             requests |-> attempt + 1, failed |-> attempt + 1]>>
    /\ fpc' = "raised"
    /\ UNCHANGED <<file_content, lines, line_index, content_chunks, raw_chunks,
                   current_chunk, current_token_count, chunk_index,
                   full_analysis_result, payload_messages, attempt, budgetVars, chatVars>>

\* line 163
ReturnChunks ==
    /\ fpc = "chunks"
    /\ chunk_index > Len(content_chunks)
    /\ fpc' = "done"
    /\ UNCHANGED <<file_content, lines, line_index, content_chunks, raw_chunks,
                   current_chunk, current_token_count, chunk_index,
                   full_analysis_result, payload_messages, attempt, last_call,
                   budgetVars, chatVars>>

handle_file_chunks ==
    \/ ReadLines
    \/ LineJoinsChunk
    \/ LineClosesChunk
    \/ LastChunk
    \/ NoLastChunk
    \/ AnalyzeChunk
    \/ AttemptSucceeds
    \/ AttemptFailsRetry
    \/ AttemptFailsLast
    \/ AttemptRaises
    \/ ReturnChunks

SpecFile == InitFile /\ [][handle_file_chunks]_vars

\* ------------------------------------- manage_token_limits as one call
\* lines 101-103: the eviction loop
RECURSIVE EvictLoop(_, _)
EvictLoop(temp, evicted) ==
    IF OverBudget(SumTokens(temp)) /\ Len(temp) > 1
    THEN LET i == PopIndex(temp)
         IN EvictLoop(RemoveAt(temp, i), Append(evicted, temp[i]))
    ELSE [temp |-> temp, evicted |-> evicted]

\* lines 116-120
Returning(temp, total, msg, used) ==
    [unfinished |-> FALSE,
     transcript |-> IF Truthy(msg) THEN Append(temp, UserMessage(msg[1])) ELSE temp,
     total |-> IF Truthy(msg) THEN total + count_tokens(msg[1]) ELSE total,
     used |-> used]

\* lines 90-120: what manage_token_limits(history, msg) returns when the d+1-th,
\* d+2-th, ... summary messages summarize_messages returns are summaries[d + 1],
\* summaries[d + 2], ...; unfinished when the call goes on after MaxDepth
\* recursive calls, where it is not followed further
RECURSIVE ManageTokenLimits(_, _, _, _)
ManageTokenLimits(history, msg, summaries, d) ==
    LET temp0 == IF Truthy(msg) THEN Append(history, UserMessage(msg[1])) ELSE history
        e == EvictLoop(temp0, <<>>)
        temp1 == <<summaries[d + 1]>> \o e.temp
    IN IF ~OverBudget(SumTokens(temp0))
       THEN Returning(history, SumTokens(temp0), msg, d)
       ELSE IF e.evicted = <<>>
       THEN Returning(e.temp, SumTokens(e.temp), msg, d)
       ELSE IF ~OverBudget(SumTokens(temp1))
       THEN Returning(temp1, SumTokens(temp1), msg, d + 1)
       ELSE IF d = MaxDepth
       THEN [unfinished |-> TRUE, transcript |-> <<>>, total |-> 0, used |-> d + 1]
       ELSE ManageTokenLimits(temp1, <<>>, summaries, d + 1)

\* the call as one step agrees with the call step by step
StepsAgree ==
    LET r == ManageTokenLimits(orig_history, orig_new_message, client_log, 0)
    IN /\ (call = 1 /\ pc = "done") =>
             r = [unfinished |-> FALSE, transcript |-> result[1].transcript,
                  total |-> result[1].total, used |-> Len(client_log)]
       /\ (call = 1 /\ pc = "recurse" /\ depth = MaxDepth) => r.unfinished

\* ----------------------------------------- handle_message and the routes
SummaryMessages == {SummaryOk(reply) : reply \in SummaryReplies} \cup {SummaryFailed}

\* the summary messages summarize_messages returns to one manage_token_limits call
SummarySequences == [1..(MaxDepth + 1) -> SummaryMessages]

ChatContentLens == {1, 3}

\* stored conversations: messages of 1 or 3 tokens, so that some are under and
\* some over the ceiling once a message is added, and one message may be all that
\* eviction leaves
StoredHistories ==
    {h \in Transcripts : \A i \in 1..Len(h) : Len(h[i].content) \in ChatContentLens}

\* handler 1 receives a text in x, handler 2 in y (or no text); the completion
\* API answers handler 1 with p and handler 2 with q
UserTexts(h) ==
    {<<>>} \cup {Rep((<<"x", "y">>)[h], n) : n \in ChatContentLens}

AssistantReply(h) == <<(<<"p", "q">>)[h]>>

AssistantMessage(text) == [role |-> "assistant", content |-> text]

\* lines 85-108: what the collection's validator asks of conversation_history
validation_schema(history) ==
    \A i \in 1..Len(history) : history[i].role \in {"user", "assistant"}

\* the session has no conversation and nothing is stored, or it has conversation 1,
\* whose document is stored unless start_conversation failed to insert it
InitChat ==
    /\ BudgetIdle
    /\ FileIdle
    /\ session_conversation_id \in {NoConversation, 1}
    /\ \E doc \in {<<>>} \cup {<<h>> : h \in StoredHistories} :
          /\ session_conversation_id = NoConversation => doc = <<>>
          /\ conversations_collection =
                [c \in ConversationIds |-> IF c = 1 THEN doc ELSE <<>>]
    /\ stored_before = conversations_collection
    /\ hpc = [h \in Handlers |-> "receive"]
    /\ user_message \in {f \in [Handlers -> UNION {UserTexts(h) : h \in Handlers}] :
                            \A h \in Handlers : f[h] \in UserTexts(h)}
    /\ conversation_id = [h \in Handlers |-> NoConversation]
    /\ local_history = [h \in Handlers |-> <<>>]
    /\ emitted = [h \in Handlers |-> <<>>]
    /\ client_calls = [h \in Handlers |-> <<>>]
    /\ route_log = <<>>
    /\ few_shot = <<>>

ErrorEvents == {"error: no message received", "error: no active conversation",
                "error: unexpected error", "error: no valid response",
                "error: failed to communicate"}

Emit(h, event) == emitted' = [emitted EXCEPT ![h] = Append(@, event)]

routeVars == <<session_conversation_id, route_log, few_shot>>

\* find_one: <<>> is None
FindOne(c) == conversations_collection[c]

\* update_one with $set of conversation_history: changes the matched document, if
\* there is one
UpdateOne(collection, c, history) ==
    IF collection[c] # <<>> THEN [collection EXCEPT ![c] = <<history>>] ELSE collection

\* update_one raises WriteError: the matched document would fail the validator
Rejected(collection, c, history) ==
    collection[c] # <<>> /\ ~validation_schema(history)

\* lines 368-374: no message in the event
RejectMessage(h) ==
    /\ hpc[h] = "receive"
    /\ user_message[h] = <<>>
    /\ Emit(h, "error: no message received")
    /\ hpc' = [hpc EXCEPT ![h] = "done"]
    /\ UNCHANGED <<conversations_collection, stored_before, user_message,
                   conversation_id, local_history, client_calls, routeVars,
                   budgetVars, fileVars>>

\* lines 369 and 376-378: the session has no conversation_id
RejectNoConversation(h) ==
    /\ hpc[h] = "receive"
    /\ user_message[h] # <<>>
    /\ session_conversation_id = NoConversation
    /\ Emit(h, "error: no active conversation")
    /\ hpc' = [hpc EXCEPT ![h] = "done"]
    /\ UNCHANGED <<conversations_collection, stored_before, user_message,
                   conversation_id, local_history, client_calls, routeVars,
                   budgetVars, fileVars>>

\* lines 369 and 380-388: find_one, then the user's message is appended to the
\* loaded list
LoadConversation(h) ==
    /\ hpc[h] = "receive"
    /\ user_message[h] # <<>>
    /\ session_conversation_id # NoConversation
    /\ conversation_id' = [conversation_id EXCEPT ![h] = session_conversation_id]
    /\ LET conversation == FindOne(session_conversation_id)
           loaded == IF conversation # <<>> THEN conversation[1] ELSE <<>>
       IN local_history' =
             [local_history EXCEPT ![h] = Append(loaded, UserMessage(user_message[h]))]
    /\ hpc' = [hpc EXCEPT ![h] = "manage"]
    /\ UNCHANGED <<conversations_collection, stored_before, user_message, emitted,
                   client_calls, routeVars, budgetVars, fileVars>>

\* lines 381 and 436-438: find_one raises
FindOneRaises(h) ==
    /\ hpc[h] = "receive"
    /\ user_message[h] # <<>>
    /\ session_conversation_id # NoConversation
    /\ conversation_id' = [conversation_id EXCEPT ![h] = session_conversation_id]
    /\ Emit(h, "error: unexpected error")
    /\ hpc' = [hpc EXCEPT ![h] = "done"]
    /\ UNCHANGED <<conversations_collection, stored_before, user_message,
                   local_history, client_calls, routeVars, budgetVars, fileVars>>

\* the summarization calls of one manage_token_limits call, as completion calls
SummaryCalls(summaries, used) ==
    [i \in 1..used |-> [call |-> "summarize", ok |-> summaries[i] # SummaryFailed]]

\* lines 391-392: manage_token_limits returns
ManageReturns(h) ==
    /\ hpc[h] = "manage"
    /\ \E summaries \in SummarySequences :
          LET r == ManageTokenLimits(local_history[h], <<>>, summaries, 0)
          IN /\ ~r.unfinished
             /\ local_history' = [local_history EXCEPT ![h] = r.transcript]
             /\ client_calls' =
                   [client_calls EXCEPT ![h] = @ \o SummaryCalls(summaries, r.used)]
    /\ Emit(h, "token_usage")
    /\ hpc' = [hpc EXCEPT ![h] = "reply"]
    /\ UNCHANGED <<conversations_collection, stored_before, user_message,
                   conversation_id, routeVars, budgetVars, fileVars>>

\* lines 395-429: the completion API answers with a text; the reply is appended
\* and the conversation saved
ReplySaved(h) ==
    /\ hpc[h] = "reply"
    /\ LET history == Append(local_history[h], AssistantMessage(AssistantReply(h)))
       IN /\ ~Rejected(conversations_collection, conversation_id[h], history)
          /\ local_history' = [local_history EXCEPT ![h] = history]
          /\ conversations_collection' =
                UpdateOne(conversations_collection, conversation_id[h], history)
    /\ client_calls' = [client_calls EXCEPT ![h] = Append(@, [call |-> "reply", ok |-> TRUE])]
    /\ Emit(h, "response_chunk")
    /\ hpc' = [hpc EXCEPT ![h] = "done"]
    /\ UNCHANGED <<stored_before, user_message, conversation_id, routeVars,
                   budgetVars, fileVars>>

\* lines 395-418 and 436-438: the completion API answers with a text, the reply
\* is appended, and update_one raises: the validator rejects the document, or the
\* database fails
UpdateOneRaises(h) ==
    /\ hpc[h] = "reply"
    /\ local_history' = [local_history EXCEPT
                            ![h] = Append(@, AssistantMessage(AssistantReply(h)))]
    /\ client_calls' = [client_calls EXCEPT ![h] = Append(@, [call |-> "reply", ok |-> TRUE])]
    /\ Emit(h, "error: unexpected error")
    /\ hpc' = [hpc EXCEPT ![h] = "done"]
    /\ UNCHANGED <<conversations_collection, stored_before, user_message,
                   conversation_id, routeVars, budgetVars, fileVars>>

\* lines 395-409 and 430-432: the completion API answers without a text (no
\* 'choices', no 'message', no 'content', or an empty one)
ReplyEmpty(h) ==
    /\ hpc[h] = "reply"
    /\ client_calls' = [client_calls EXCEPT ![h] = Append(@, [call |-> "reply", ok |-> FALSE])]
    /\ Emit(h, "error: no valid response")
    /\ hpc' = [hpc EXCEPT ![h] = "done"]
    /\ UNCHANGED <<conversations_collection, stored_before, user_message,
                   conversation_id, local_history, routeVars, budgetVars, fileVars>>

\* lines 403-405 and 433-435: the request to the completion API raises a
\* RequestException
ReplyFails(h) ==
    /\ hpc[h] = "reply"
    /\ client_calls' = [client_calls EXCEPT ![h] = Append(@, [call |-> "reply", ok |-> FALSE])]
    /\ Emit(h, "error: failed to communicate")
    /\ hpc' = [hpc EXCEPT ![h] = "done"]
    /\ UNCHANGED <<conversations_collection, stored_before, user_message,
                   conversation_id, local_history, routeVars, budgetVars, fileVars>>

\* lines 405-407 and 436-438: the answer is no JSON object of the expected shape
\* ('choices' is an empty list or null): line 407 raises IndexError or TypeError
ReplyMalformed(h) ==
    /\ hpc[h] = "reply"
    /\ client_calls' = [client_calls EXCEPT ![h] = Append(@, [call |-> "reply", ok |-> FALSE])]
    /\ Emit(h, "error: unexpected error")
    /\ hpc' = [hpc EXCEPT ![h] = "done"]
    /\ UNCHANGED <<conversations_collection, stored_before, user_message,
                   conversation_id, local_history, routeVars, budgetVars, fileVars>>

handle_message ==
    \E h \in Handlers :
        \/ RejectMessage(h)
        \/ RejectNoConversation(h)
        \/ LoadConversation(h)
        \/ FindOneRaises(h)
        \/ ManageReturns(h)
        \/ ReplySaved(h)
        \/ UpdateOneRaises(h)
        \/ ReplyEmpty(h)
        \/ ReplyFails(h)
        \/ ReplyMalformed(h)

\* ------------------------------------------------------------- the routes
handlerVars == <<hpc, user_message, conversation_id, local_history, emitted,
                 client_calls>>

\* another route call may begin
MayCall == Len(route_log) + Len(few_shot) < MaxRouteCalls

\* the route returns: its HTTP status and (shortened) its message
Respond(route, status, message) ==
    route_log' = Append(route_log,
                        [route |-> route, status |-> status, message |-> message])

\* line 155: a conversation id no session, document or running call holds
InUse ==
    {session_conversation_id}
        \cup {conversation_id[h] : h \in Handlers}
        \cup {c \in ConversationIds : conversations_collection[c] # <<>>}
        \cup {few_shot[i].conversation_id : i \in 1..Len(few_shot)}

Unused == ConversationIds \ InUse

uuid4 == CHOOSE c \in Unused : \A d \in Unused : c <= d

\* lines 155-175: the session gets a new conversation, stored with an empty history
StartConversationDone ==
    /\ MayCall
    /\ Unused # {}
    /\ session_conversation_id' = uuid4
    /\ conversations_collection' = [conversations_collection EXCEPT ![uuid4] = <<<<>>>>]
    /\ Respond("start_conversation", 200, "started")
    /\ UNCHANGED <<stored_before, few_shot, handlerVars, budgetVars, fileVars>>

\* lines 155-166 and 176-178: insert_one raises; the session keeps the new id
StartConversationFails ==
    /\ MayCall
    /\ Unused # {}
    /\ session_conversation_id' = uuid4
    /\ Respond("start_conversation", 500, "failed to start")
    /\ UNCHANGED <<conversations_collection, stored_before, few_shot, handlerVars,
                   budgetVars, fileVars>>

start_conversation == StartConversationDone \/ StartConversationFails

\* lines 184-188
ResetNoConversation ==
    /\ MayCall
    /\ session_conversation_id = NoConversation
    /\ Respond("reset_conversation", 400, "no active conversation")
    /\ UNCHANGED <<conversations_collection, stored_before, session_conversation_id,
                   few_shot, handlerVars, budgetVars, fileVars>>

\* lines 184-200: the stored history is emptied
ResetDone ==
    /\ MayCall
    /\ session_conversation_id # NoConversation
    /\ conversations_collection' =
          UpdateOne(conversations_collection, session_conversation_id, <<>>)
    /\ Respond("reset_conversation", 200, "reset")
    /\ UNCHANGED <<stored_before, session_conversation_id, few_shot, handlerVars,
                   budgetVars, fileVars>>

\* lines 184-191 and 201-203: update_one raises
ResetFails ==
    /\ MayCall
    /\ session_conversation_id # NoConversation
    /\ Respond("reset_conversation", 500, "error resetting")
    /\ UNCHANGED <<conversations_collection, stored_before, session_conversation_id,
                   few_shot, handlerVars, budgetVars, fileVars>>

reset_conversation == ResetNoConversation \/ ResetDone \/ ResetFails

\* lines 224-232: the conversation exists and becomes the session's
LoadFound(c) ==
    /\ MayCall
    /\ FindOne(c) # <<>>
    /\ session_conversation_id' = c
    /\ Respond("load_conversation", 200, "conversation")
    /\ UNCHANGED <<conversations_collection, stored_before, few_shot, handlerVars,
                   budgetVars, fileVars>>

\* lines 224-228 and 233-235
LoadNotFound(c) ==
    /\ MayCall
    /\ FindOne(c) = <<>>
    /\ Respond("load_conversation", 404, "not found")
    /\ UNCHANGED <<conversations_collection, stored_before, session_conversation_id,
                   few_shot, handlerVars, budgetVars, fileVars>>

\* lines 224-225 and 236-238: find_one raises
LoadFails(c) ==
    /\ MayCall
    /\ Respond("load_conversation", 500, "failed to load")
    /\ UNCHANGED <<conversations_collection, stored_before, session_conversation_id,
                   few_shot, handlerVars, budgetVars, fileVars>>

load_conversation ==
    \E c \in ConversationIds : LoadFound(c) \/ LoadNotFound(c) \/ LoadFails(c)

\* data.get("user_prompt") and data.get("assistant_response"): none, or a text
UserPrompts == {<<>>, <<"u">>}
AssistantResponses == {<<>>, <<"v">>}

\* lines 317-322
FewShotRejected ==
    /\ MayCall
    /\ \E user_prompt \in UserPrompts, assistant_response \in AssistantResponses :
          user_prompt = <<>> \/ assistant_response = <<>>
    /\ Respond("add_few_shot_example", 400, "both are required")
    /\ UNCHANGED <<conversations_collection, stored_before, session_conversation_id,
                   few_shot, handlerVars, budgetVars, fileVars>>

\* lines 317-328
FewShotNoConversation ==
    /\ MayCall
    /\ \E user_prompt \in UserPrompts, assistant_response \in AssistantResponses :
          user_prompt # <<>> /\ assistant_response # <<>>
    /\ session_conversation_id = NoConversation
    /\ Respond("add_few_shot_example", 400, "no active conversation")
    /\ UNCHANGED <<conversations_collection, stored_before, session_conversation_id,
                   few_shot, handlerVars, budgetVars, fileVars>>

\* lines 317-336: find_one finds nothing
FewShotNotFound ==
    /\ MayCall
    /\ \E user_prompt \in UserPrompts, assistant_response \in AssistantResponses :
          user_prompt # <<>> /\ assistant_response # <<>>
    /\ session_conversation_id # NoConversation
    /\ FindOne(session_conversation_id) = <<>>
    /\ Respond("add_few_shot_example", 404, "not found")
    /\ UNCHANGED <<conversations_collection, stored_before, session_conversation_id,
                   few_shot, handlerVars, budgetVars, fileVars>>

\* lines 317-331 and 360-362: find_one raises
FewShotFindFails ==
    /\ MayCall
    /\ \E user_prompt \in UserPrompts, assistant_response \in AssistantResponses :
          user_prompt # <<>> /\ assistant_response # <<>>
    /\ session_conversation_id # NoConversation
    /\ Respond("add_few_shot_example", 500, "failed to add")
    /\ UNCHANGED <<conversations_collection, stored_before, session_conversation_id,
                   few_shot, handlerVars, budgetVars, fileVars>>

\* lines 317-342: find_one, then the two messages are appended to the loaded list
FewShotLoaded ==
    /\ MayCall
    /\ session_conversation_id # NoConversation
    /\ FindOne(session_conversation_id) # <<>>
    /\ \E user_prompt \in UserPrompts, assistant_response \in AssistantResponses :
          /\ user_prompt # <<>> /\ assistant_response # <<>>
          /\ few_shot' =
                <<[conversation_id |-> session_conversation_id,
                   conversation_history |->
                       FindOne(session_conversation_id)[1]
                           \o <<UserMessage(user_prompt),
                                AssistantMessage(assistant_response)>>]>>
    /\ UNCHANGED <<conversations_collection, stored_before, session_conversation_id,
                   route_log, handlerVars, budgetVars, fileVars>>

\* lines 345-359: update_one writes the list back
FewShotSaved ==
    /\ few_shot # <<>>
    /\ conversations_collection' =
          UpdateOne(conversations_collection, few_shot[1].conversation_id,
                    few_shot[1].conversation_history)
    /\ few_shot' = <<>>
    /\ Respond("add_few_shot_example", 200, "added")
    /\ UNCHANGED <<stored_before, session_conversation_id, handlerVars, budgetVars,
                   fileVars>>

\* lines 349 and 360-362: update_one raises
FewShotSaveFails ==
    /\ few_shot # <<>>
    /\ few_shot' = <<>>
    /\ Respond("add_few_shot_example", 500, "failed to add")
    /\ UNCHANGED <<conversations_collection, stored_before, session_conversation_id,
                   handlerVars, budgetVars, fileVars>>

add_few_shot_example ==
    \/ FewShotRejected
    \/ FewShotNoConversation
    \/ FewShotNotFound
    \/ FewShotFindFails
    \/ FewShotLoaded
    \/ FewShotSaved
    \/ FewShotSaveFails

NextChat ==
    \/ handle_message
    \/ start_conversation
    \/ reset_conversation
    \/ load_conversation
    \/ add_few_shot_example

SpecChat == InitChat /\ [][NextChat]_vars

\* ------------------------------------------------------------- claims
\* the transcript the outer call works on: the argument plus the new message
Working ==
    IF Truthy(orig_new_message)
    THEN Append(orig_history, UserMessage(orig_new_message[1]))
    ELSE orig_history

Returned == result[1]

Suffix(s, k) == SubSeq(s, Len(s) - k + 1, Len(s))

\* the longest suffix whose total is below the ceiling, or the last message alone
Kept(w) ==
    IF w = <<>> THEN <<>>
    ELSE LET fits == {k \in 1..Len(w) : SumTokens(Suffix(w, k)) < Ceiling}
         IN IF fits = {} THEN Suffix(w, 1)
            ELSE Suffix(w, CHOOSE k \in fits : \A j \in fits : j <= k)

EveryMessageBelowCeiling ==
    /\ \A i \in 1..Len(Working) : count_tokens(Working[i].content) < Ceiling
    /\ \A i \in 1..Len(client_log) : count_tokens(client_log[i].content) < Ceiling

\* C1: when every single message (the new message and the summaries included) is
\* below the ceiling, the transcript manage_token_limits returns totals at most
\* MAX_TOKENS - REPLY_TOKENS.
C1_ReturnedWithinCeiling ==
    (pc = "done" /\ EveryMessageBelowCeiling)
        => SumTokens(Returned.transcript) <= Ceiling

\* C2: a transcript whose last message alone exceeds the ceiling is never
\* returned: the call fails instead.
C2_TooLargeNeverReturned ==
    (Working # <<>> /\ count_tokens(Working[Len(Working)].content) > Ceiling)
        => result = <<>>

\* C3: every recursive call is on a transcript with strictly fewer messages than
\* the working transcript of the call that makes it.
C3_RecursionShrinks ==
    [][(pc = "recurse" /\ pc' = "start")
          => Len(heap'[conversation_history'])
               < Len(heap[conversation_history])
                   + (IF Truthy(new_message) THEN 1 ELSE 0)]_vars

\* the returned transcript without the summary message at its front
ReturnedBody ==
    IF client_log # <<>> THEN Tail(Returned.transcript) ELSE Returned.transcript

\* C4: eviction is oldest-first and minimal.  While the outer call evicts, the
\* evicted messages followed by the kept ones are the working transcript (the
\* evicted ones are a prefix, in order); when eviction stops, the kept messages
\* are the longest suffix below the ceiling, or the last message alone; and the
\* returned transcript holds exactly that suffix after its summary message,
\* followed by nothing but the message line 117 appends.
C4_EvictionOldestFirst ==
    /\ (depth = 0 /\ pc \in {"evict", "summarize"})
          => messages_to_summarize \o heap[temp_history] = Working
    /\ (depth = 0 /\ pc = "summarize") => heap[temp_history] = Kept(Working)
    /\ pc = "done"
          => LET k == Len(Kept(Working))
             IN /\ Len(ReturnedBody) >= k
                /\ SubSeq(ReturnedBody, 1, k) = Kept(Working)
                /\ SubSeq(ReturnedBody, k + 1, Len(ReturnedBody))
                      \in (IF Truthy(orig_new_message)
                           THEN {<<>>, <<UserMessage(orig_new_message[1])>>}
                           ELSE {<<>>})

\* C4 witness: [A, B, C] over the ceiling returned as summary, B, C: only A evicted
C4_Witness ==
    /\ pc = "done"
    /\ depth = 0
    /\ Len(orig_history) = 3
    /\ orig_new_message = <<>>
    /\ messages_to_summarize = <<orig_history[1]>>
    /\ ReturnedBody = <<orig_history[2], orig_history[3]>>

\* C5 as stated: the second of two calls in a row returns what the first returned.
C5_SameResultTwice ==
    (call = 2 /\ pc = "done") => result = first_result

\* C5 amended: the first call leaves the caller's transcript as it was, and the
\* second call returns what the first returned whenever summarize_messages gave
\* the same summary messages in both.
C5_SameResultGivenSameSummaries ==
    /\ call = 2 => heap[CallerList] = orig_history
    /\ (call = 2 /\ pc = "done" /\ client_log = first_log) => result = first_result

\* C5 witness: both calls summarized, got the same summary and returned the same
C5_Witness ==
    /\ call = 2
    /\ pc = "done"
    /\ client_log # <<>>
    /\ client_log = first_log
    /\ result = first_result

\* C6: the returned total is the sum of count_tokens over the returned transcript.
C6_TotalIsSum ==
    pc = "done" => Returned.total = SumTokens(Returned.transcript)

Occurrences(s, m) == Cardinality({i \in 1..Len(s) : s[i] = m})

\* C7: a new message is in the returned transcript exactly once, as the last
\* message with role user, and its tokens are counted once in the returned total.
C7_NewMessageOnce ==
    (pc = "done" /\ Truthy(orig_new_message))
        => LET m == UserMessage(orig_new_message[1])
               t == Returned.transcript
           IN /\ t # <<>>
              /\ t[Len(t)] = m
              /\ Occurrences(t, m) = 1
              /\ Returned.total = SumTokens(t)

\* the lines of a sequence of chunk texts, chunk after chunk
RECURSIVE LinesOfChunks(_)
LinesOfChunks(chunks) ==
    IF chunks = <<>> THEN <<>>
    ELSE SplitLines(Head(chunks)) \o LinesOfChunks(Tail(chunks))

RECURSIVE LineTokens(_)
LineTokens(ls) ==
    IF ls = <<>> THEN 0 ELSE count_tokens(Head(ls)) + LineTokens(Tail(ls))

ChunkingDone == fpc \in {"chunks", "attempt", "raised", "done"}

\* C8: the lines of the emitted chunks, in chunk order, are the document's lines.
C8_ChunksReproduceLines ==
    ChunkingDone => LinesOfChunks(content_chunks) = SplitLines(file_content)

ExampleDocument == JoinLines(<<Rep("a", 4), Rep("b", 4), Rep("c", 4)>>)
ExampleChunks == <<Rep("a", 4) \o <<"\n">> \o Rep("b", 4), Rep("c", 4)>>

\* C9: chunking is greedy.  The lines a chunk was built from are a contiguous
\* run of the document's lines; a chunk built from more than one line has at most
\* CHUNK_SIZE_TOKENS tokens in its lines; each chunk that is followed by another
\* was closed because the first line of the next one would have taken it over
\* CHUNK_SIZE_TOKENS; and line token counts [4, 4, 4] with CHUNK_SIZE_TOKENS = 10
\* give the first two lines, then the third alone.
C9_GreedyChunks ==
    /\ fpc = "lines" =>
          /\ current_token_count = LineTokens(SplitLines(current_chunk))
          /\ Len(SplitLines(current_chunk)) > 1
                => current_token_count <= CHUNK_SIZE_TOKENS
    /\ ChunkingDone =>
          LET n == Len(raw_chunks)
              group(i) == SplitLines(raw_chunks[i])
              all == LinesOfChunks(raw_chunks)
          IN /\ Len(content_chunks) = n
             /\ \A i \in 1..n : content_chunks[i] = Strip(raw_chunks[i])
             /\ Len(all) <= Len(lines) /\ all = SubSeq(lines, 1, Len(all))
             /\ \A i \in 1..n :
                   Len(group(i)) > 1 => LineTokens(group(i)) <= CHUNK_SIZE_TOKENS
             /\ \A i \in 1..(n - 1) :
                   /\ group(i + 1) # <<>>
                   /\ LineTokens(group(i)) + count_tokens(group(i + 1)[1])
                         > CHUNK_SIZE_TOKENS
    /\ (ChunkingDone /\ file_content = ExampleDocument)
          => content_chunks = ExampleChunks

\* C9 witness: the document of the example was chunked into two chunks, and
\* CHUNK_SIZE_TOKENS is the 10 of the example
C9_Witness ==
    /\ fpc = "done"
    /\ CHUNK_SIZE_TOKENS = 10
    /\ file_content = ExampleDocument
    /\ content_chunks = ExampleChunks

\* C10: when every request of an analyze_chunk_with_llama call failed, the call
\* made exactly 3 requests and returned the failure text; it did not raise.
C10_ThreeAttemptsThenFailureText ==
    (last_call # <<>> /\ last_call[1].failed = last_call[1].requests)
        => /\ last_call[1].outcome = "returned"
           /\ last_call[1].value = FailureText
           /\ last_call[1].requests = retries

Events(h) == {emitted[h][i] : i \in 1..Len(emitted[h])}

Holds(history, message) == \E i \in 1..Len(history) : history[i] = message

SomeCallFailed(h) == \E i \in 1..Len(client_calls[h]) : ~client_calls[h][i].ok

\* no route other than send_message was called
NoRouteCalled == route_log = <<>> /\ few_shot = <<>>

\* C11: when a completion call failed while a message was handled (no other
\* message being handled and no route called meanwhile), the handler emitted an
\* error, the stored conversations are as they were before, and the transcript
\* the handler got back from manage_token_limits holds no error placeholder.
C11_FailureLeavesConversation ==
    (hpc[1] = "done" /\ hpc[2] = "receive" /\ NoRouteCalled /\ SomeCallFailed(1))
        => /\ Events(1) \cap ErrorEvents # {}
           /\ conversations_collection = stored_before
           /\ ~Holds(local_history[1], SummaryFailed)

\* a line with more tokens than a chunk may hold is a chunk of its own
OversizedLinesAlone ==
    \A j \in 1..Len(lines) :
        count_tokens(lines[j]) > CHUNK_SIZE_TOKENS
            => \E i \in 1..Len(content_chunks) :
                  /\ content_chunks[i] = lines[j]
                  /\ SplitLines(raw_chunks[i]) = <<lines[j]>>

\* C12: every emitted chunk holds at least one line of the document, and a line
\* whose tokens alone exceed CHUNK_SIZE_TOKENS is emitted as a chunk of exactly
\* that line.
C12_ChunksHoldLines ==
    ChunkingDone
        => /\ \A i \in 1..Len(content_chunks) :
                 /\ SplitLines(raw_chunks[i]) # <<>>
                 /\ content_chunks[i] # <<>>
           /\ OversizedLinesAlone

Stored(c) == conversations_collection[c][1]

NoSummarization(h) ==
    \A i \in 1..Len(client_calls[h]) : client_calls[h][i].call # "summarize"

\* C13: when two handlers of one stored conversation both received a reply (neither
\* evicted anything, and no route was called meanwhile), the stored conversation
\* holds both user messages and both assistant replies.
C13_BothMessagesStored ==
    (/\ \A h \in Handlers : hpc[h] = "done" /\ "response_chunk" \in Events(h)
     /\ \A h \in Handlers : NoSummarization(h)
     /\ NoRouteCalled
     /\ conversation_id[1] = conversation_id[2]
     /\ conversations_collection[conversation_id[1]] # <<>>)
        => \A h \in Handlers :
              /\ Holds(Stored(conversation_id[1]), UserMessage(user_message[h]))
              /\ Holds(Stored(conversation_id[1]), AssistantMessage(AssistantReply(h)))

\* C14: when the working transcript totals less than MAX_TOKENS - REPLY_TOKENS,
\* manage_token_limits evicts nothing, asks for no summary, does not recurse,
\* leaves the caller's list as it was, and returns the input messages in their
\* order followed only by the new message, if there is one.
C14_UnderCeilingUntouched ==
    (pc # "idle" /\ SumTokens(Working) < Ceiling)
        => /\ pc \in {"start", "under", "append", "done"}
           /\ messages_to_summarize = <<>>
           /\ client_log = <<>>
           /\ depth = 0
           /\ heap[CallerList] = orig_history
           /\ pc = "done" => Returned.transcript = Working

\* C14 witness: a transcript of two messages and a new message, under the
\* ceiling together, was returned
C14_Witness ==
    /\ pc = "done"
    /\ Len(orig_history) = 2
    /\ Truthy(orig_new_message)
    /\ SumTokens(Working) < Ceiling
    /\ Returned.transcript = Append(orig_history, UserMessage(orig_new_message[1]))
    /\ heap[CallerList] = orig_history

====
